---- MODULE Spec2Model ----
(***************************************************************************)
(* Bose-Hubbard operator (netket/operator/_bose_hubbard) and the discrete  *)
(* Hilbert index codec (netket/hilbert/discrete_hilbert.py).               *)
(*                                                                         *)
(* Conventions of the model                                                *)
(*   - sites are 0-based as in the source; a configuration x is a sequence *)
(*     and site s is x[s+1];                                               *)
(*   - an edge is a pair <<i, j>> of 0-based site indices;                 *)
(*   - a matrix element is the real number  rat/2 + sgn*sqrt(sq), kept as  *)
(*     the record [rat, sgn, sq] so that 0.5*U and the square roots of the *)
(*     hopping amplitudes stay exact;                                      *)
(*   - array expressions follow array broadcasting: a Python tuple meeting *)
(*     an array in a comparison is read as a 1-d array of its entries.     *)
(***************************************************************************)
EXTENDS Integers, Sequences, FiniteSets, TLC

VARIABLES ops, ret

vars == <<ops, ret>>

\* ---------------------------------------------------------------- bounds
MaxSites == 2
MaxOcc == 2
MaxEdges == 2
MaxCoef == 2
MaxBatch == 2

\* ---------------------------------------------------------------- helpers
RECURSIVE SumSeq(_)
SumSeq(s) == IF s = <<>> THEN 0 ELSE s[1] + SumSeq(Tail(s))

Sgn(v) == IF v > 0 THEN 1 ELSE IF v < 0 THEN -1 ELSE 0

\* the real number 0 as a matrix element
ZeroMel == [rat |-> 0, sgn |-> 0, sq |-> 0]

\* the rational c (given in halves) as a matrix element
RatMel(halves) == [rat |-> halves, sgn |-> 0, sq |-> 0]

\* not-a-number, the square root of a negative number
NaNMel == [rat |-> 0, sgn |-> 0, sq |-> -1]

\* the real number c * sqrt(a) * sqrt(b) for integers c, a, b
SqrtMel(c, a, b) ==
    IF a < 0 \/ b < 0 THEN NaNMel
    ELSE [rat |-> 0, sgn |-> Sgn(c) * Sgn(a * b), sq |-> c * c * a * b]

\* boolean * real
MaskTimes(m, mel) == IF mel = NaNMel THEN NaNMel ELSE IF m THEN mel ELSE ZeroMel

\* ---------------------------------------------------------------- hilbert
\* Fock spaces: one maximum occupation per site, each 1 or MaxOcc
FockSpaces == {[isFock |-> TRUE, n_max |-> nm] :
                 nm \in UNION {[1..n -> {1, MaxOcc}] : n \in 1..MaxSites}}

\* a discrete space that is not a Fock space
OtherSpace == [isFock |-> FALSE, n_max |-> <<1>>]

HilbertSize(h) == Len(h.n_max)

\* the valid configurations of a Fock space
Configs(h) == {x \in [1..HilbertSize(h) -> 0..MaxOcc] :
                 \A s \in 1..HilbertSize(h) : x[s] <= h.n_max[s]}

\* ---------------------------------------------------------------- kernel
\* edges[:, 0] and edges[:, 1]
EdgeI(edges) == [k \in 1..Len(edges) |-> edges[k][1]]
EdgeJ(edges) == [k \in 1..Len(edges) |-> edges[k][2]]

\* an out-of-bounds index of an indexed read is clamped to the last site
ClampIndex(i, n) == IF i > n - 1 THEN n - 1 ELSE IF i < 0 THEN 0 ELSE i

\* x[:, idx] for one row x
Gather(x, idx) == [k \in 1..Len(idx) |-> x[ClampIndex(idx[k], Len(x)) + 1]]

\* length of the broadcast of two 1-d shapes, -1 when they do not broadcast
BroadcastLen(a, b) == IF a = b THEN a ELSE IF a = 1 THEN b ELSE IF b = 1 THEN a ELSE -1

\* entry k of a 1-d array broadcast to a longer one
At(v, k) == IF Len(v) = 1 THEN v[1] ELSE v[k]

\* x * (x - 1), elementwise
XTimesXm1(x) == [s \in 1..Len(x) |-> x[s] * (x[s] - 1)]

\* n_i * n_j, elementwise
Prod(a, b) == [k \in 1..Len(a) |-> a[k] * b[k]]

\* Uh = 0.5 * U, in halves
Uh(U) == U

\* an integer coefficient in halves
InHalves(c) == 2 * c

\* Mels0 with the chemical potential term added instead of subtracted
Mels0_MuAdded(x, n_i, n_j, U, V, mu) ==
    InHalves(mu) * SumSeq(x) + Uh(U) * SumSeq(XTimesXm1(x))
        + InHalves(V) * SumSeq(Prod(n_i, n_j))

\* mels0, accumulated as in the source, in halves
Mels0(x, n_i, n_j, U, V, mu) ==
    LET m0 == 0
        m1 == m0 - InHalves(mu) * SumSeq(x)
        m2 == m1 + Uh(U) * SumSeq(XTimesXm1(x))
        m3 == m2 + InHalves(V) * SumSeq(Prod(n_i, n_j))
    IN  m3

\* (n_src > 0) & (n_dst < n_max): n_src, n_dst have one entry per edge, n_max
\* one entry per site; the three are broadcast against each other
HopMask(n_src, n_dst, n_max) ==
    [k \in 1..BroadcastLen(Len(n_dst), Len(n_max)) |->
        At(n_src, k) > 0 /\ At(n_dst, k) < At(n_max, k)]

\* mask * (-J * sqrt(n_src) * sqrt(n_dst + 1))
HopMels(mask, J, n_src, n_dst) ==
    [k \in 1..Len(mask) |->
        MaskTimes(mask[k], SqrtMel(0 - J, At(n_src, k), At(n_dst, k) + 1))]

\* x[:, None] * mask[..., None]: one copy of x per slot, zeroed where masked out
MaskedRows(x, mask) ==
    [k \in 1..Len(mask) |-> [s \in 1..Len(x) |-> IF mask[k] THEN x[s] ELSE 0]]

\* row.at[idx].add(d): every index of idx is updated, repeated indices
\* accumulate, out-of-bounds updates are dropped
ScatterAdd(row, idx, d) ==
    [s \in 1..Len(row) |->
        row[s] + d * Cardinality({m \in 1..Len(idx) : idx[m] = s - 1})]

\* rows.at[:, :, idx].add(d): the same update on every slot
ScatterAddAll(rows, idx, d) == [k \in 1..Len(rows) |-> ScatterAdd(rows[k], idx, d)]

\* XPrime without the update of the sites that receive a quantum
XPrime_NoCreate(x, mask, destroy, create) ==
    ScatterAddAll(MaskedRows(x, mask), destroy, -1)

\* x_prime1 / x_prime2
XPrime(x, mask, destroy, create) ==
    ScatterAddAll(ScatterAddAll(MaskedRows(x, mask), destroy, -1), create, 1)

KernelRaised == [raised |-> TRUE, xp |-> <<>>, mels |-> <<>>, mask |-> <<>>]

\* _bose_hubbard_kernel_jax for one row x of the batch
Kernel(x, edges, U, V, J, mu, n_max) ==
    LET i == EdgeI(edges)
        j == EdgeJ(edges)
        n_i == Gather(x, i)
        n_j == Gather(x, j)
    IN  IF BroadcastLen(Len(edges), Len(n_max)) = -1
        THEN KernelRaised
        ELSE LET mask1 == HopMask(n_i, n_j, n_max)
                 mels1 == HopMels(mask1, J, n_i, n_j)
                 x_prime1 == XPrime(x, mask1, i, j)
                 mask2 == HopMask(n_j, n_i, n_max)
                 mels2 == HopMels(mask2, J, n_j, n_i)
                 x_prime2 == XPrime(x, mask2, j, i)
             IN  [raised |-> FALSE,
                  xp |-> <<x>> \o x_prime1 \o x_prime2,
                  mels |-> <<RatMel(Mels0(x, n_i, n_j, U, V, mu))>> \o mels1 \o mels2,
                  mask |-> <<TRUE>> \o mask1 \o mask2]

\* ---------------------------------------------------------------- operator
OpIds == {"a", "b"}

\* a dtype object, and the test isinstance(v, cls) on the class of a value
DType(name) == [class |-> "dtype", name |-> name]
IsInstance(v, cls) == v.class = cls

\* the dtype argument left at its default
NoDType == "None"
RealDTypes == {"float32", "float64"}
ComplexDTypes == {"complex64", "complex128"}

\* canonicalize_dtypes(float, U, V, J, mu, dtype=dtype) for real couplings:
\* the override when one is given, else the default floating dtype
CanonicalizeDtypes(dtype) == IF dtype = NoDType THEN DType("float64") ELSE DType(dtype)

NoOp == [live |-> FALSE, hilbert |-> OtherSpace, edges |-> <<>>, n_max |-> <<>>,
         n_sites |-> 0, U |-> 0, V |-> 0, J |-> 0, mu |-> 0, max_conn |-> 0,
         dtype |-> DType("float64")]

\* np.asarray of a list of pairs: the empty list gives a 1-d array
ListAsArray(pairs) ==
    IF pairs = <<>> THEN [kind |-> "array", n_nodes |-> 0, ndim |-> 1, cols |-> 0, edges |-> <<>>]
    ELSE [kind |-> "array", n_nodes |-> 0, ndim |-> 2, cols |-> 2, edges |-> pairs]

\* the graph argument after the two isinstance branches
GraphAsArray(graph) ==
    IF graph.kind \in {"graph", "list"} THEN ListAsArray(graph.edges) ELSE graph

\* BoseHubbardBase.__init__ followed by BoseHubbardJax.__init__: the new
\* object, or the error raised
NewOp(hilbert, graph, U, V, J, mu, dtype) ==
    IF ~hilbert.isFock
    THEN [error |-> "AssertionError", op |-> NoOp]
    ELSE IF graph.kind = "graph" /\ graph.n_nodes # HilbertSize(hilbert)
    THEN [error |-> "ValueError", op |-> NoOp]
    ELSE LET arr == GraphAsArray(graph)
         IN  IF arr.ndim # 2 \/ arr.cols # 2
             THEN [error |-> "ValueError", op |-> NoOp]
             ELSE [error |-> "",
                   op |-> [live |-> TRUE, hilbert |-> hilbert, edges |-> arr.edges,
                           n_max |-> hilbert.n_max, n_sites |-> HilbertSize(hilbert),
                           U |-> U, V |-> V, J |-> J, mu |-> mu,
                           max_conn |-> 1 + Len(arr.edges) * 2,
                           dtype |-> CanonicalizeDtypes(dtype)]]

\* op = BoseHubbardJax(hilbert, graph, U, V, J, mu, dtype), bound to the fresh
\* name id
Construct(id, hilbert, graph, U, V, J, mu, dtype) ==
    LET r == NewOp(hilbert, graph, U, V, J, mu, dtype)
    IN  /\ ~ops[id].live
        /\ ops' = IF r.error = "" THEN [ops EXCEPT ![id] = r.op] ELSE ops
        /\ ret' = [call |-> "init", id |-> id, raised |-> r.error # "", error |-> r.error]

\* BoseHubbardBase.is_hermitian
IsHermitian(op) == TRUE

\* BoseHubbardJax.get_conn_padded on a one-row batch
GetConnPadded(id, x) ==
    /\ ops[id].live
    /\ x \in Configs(ops[id].hilbert)
    /\ ret' = [call |-> "conn", id |-> id, x |-> x,
               out |-> Kernel(x, ops[id].edges, ops[id].U, ops[id].V, ops[id].J,
                              ops[id].mu, ops[id].n_max)]
    /\ UNCHANGED ops

\* the terms to_local_operator adds for the sites
SiteTerms(op) ==
    IF op.U # 0 \/ op.mu # 0
    THEN [s \in 1..HilbertSize(op.hilbert) |->
             [kind |-> "site", i |-> s - 1, j |-> s - 1, a |-> op.U, b |-> op.mu]]
    ELSE <<>>

\* the terms to_local_operator adds for the edges: a density-density term and
\* a hopping term per edge
EdgeTerms(op) ==
    IF op.J # 0
    THEN [t \in 1..2 * Len(op.edges) |->
             LET e == op.edges[(t + 1) \div 2]
             IN  IF t % 2 = 1
                 THEN [kind |-> "dens", i |-> e[1], j |-> e[2], a |-> op.V, b |-> 0]
                 ELSE [kind |-> "hop", i |-> e[1], j |-> e[2], a |-> op.J, b |-> 0]]
    ELSE <<>>

\* BoseHubbardBase.to_local_operator: the accumulated list of terms
ToLocalOperator(id) ==
    /\ ops[id].live
    /\ ret' = [call |-> "tlo", id |-> id, ha |-> SiteTerms(ops[id]) \o EdgeTerms(ops[id])]
    /\ UNCHANGED ops

\* the diagonal matrix element <x|t|x> of one accumulated term, in halves:
\* (U/2) n_i (n_i - 1) - mu n_i,  V n_i n_j,  and 0 for a hopping term i # j
TermDiag(t, x) ==
    IF t.kind = "site" THEN t.a * x[t.i + 1] * (x[t.i + 1] - 1) - 2 * t.b * x[t.i + 1]
    ELSE IF t.kind = "dens" THEN 2 * t.a * x[t.i + 1] * x[t.j + 1]
    ELSE 0

\* <x|ha|x>, in halves
HaDiag(ha, x) == SumSeq([t \in 1..Len(ha) |-> TermDiag(ha[t], x)])

\* AddCoefs with V taken from the other operand's U
AddCoefs_VFromU(self, other) ==
    [self EXCEPT !.U = self.U + other.U, !.V = self.V + other.U,
                 !.J = self.J + other.J, !.mu = self.mu + other.mu]

\* self._U += other.U; self._V += other.V; self._J += other.J; self._mu += other.mu
AddCoefs(self, other) ==
    [self EXCEPT !.U = self.U + other.U, !.V = self.V + other.V,
                 !.J = self.J + other.J, !.mu = self.mu + other.mu]

\* self._U -= other.U; self._V -= other.V; self._J -= other.J; self._mu -= other.mu
SubCoefs(self, other) ==
    [self EXCEPT !.U = self.U - other.U, !.V = self.V - other.V,
                 !.J = self.J - other.J, !.mu = self.mu - other.mu]

\* BoseHubbardBase._iadd_same_hamiltonian: ops[self] += ops[other]
IaddSameHamiltonian(self, other) ==
    /\ ops[self].live /\ ops[other].live
    /\ IF ops[self].hilbert # ops[other].hilbert
       THEN /\ ops' = ops
            /\ ret' = [call |-> "iadd", self |-> self, other |-> other,
                       raised |-> TRUE, pre |-> ops]
       ELSE /\ ops' = [ops EXCEPT ![self] = AddCoefs(ops[self], ops[other])]
            /\ ret' = [call |-> "iadd", self |-> self, other |-> other,
                       raised |-> FALSE, pre |-> ops]

\* BoseHubbardBase._isub_same_hamiltonian: ops[self] -= ops[other]
IsubSameHamiltonian(self, other) ==
    /\ ops[self].live /\ ops[other].live
    /\ IF ops[self].hilbert # ops[other].hilbert
       THEN /\ ops' = ops
            /\ ret' = [call |-> "isub", self |-> self, other |-> other,
                       raised |-> TRUE, pre |-> ops]
       ELSE /\ ops' = [ops EXCEPT ![self] = SubCoefs(ops[self], ops[other])]
            /\ ret' = [call |-> "isub", self |-> self, other |-> other,
                       raised |-> FALSE, pre |-> ops]

\* BoseHubbardBase.copy: the constructor called on the fields of ops[src],
\* with the dtype of ops[src] when none is given, the result bound to the
\* fresh name dst
Copy(src, dst, dtype) ==
    /\ ops[src].live /\ ~ops[dst].live
    /\ LET r == NewOp(ops[src].hilbert,
                      [kind |-> "array", n_nodes |-> 0, ndim |-> 2, cols |-> 2,
                       edges |-> ops[src].edges],
                      ops[src].U, ops[src].V, ops[src].J, ops[src].mu,
                      IF dtype = NoDType THEN ops[src].dtype.name ELSE dtype)
       IN  /\ ops' = IF r.error = "" THEN [ops EXCEPT ![dst] = r.op] ELSE ops
           /\ ret' = [call |-> "copy", id |-> dst, src |-> src, raised |-> r.error # ""]

\* BoseHubbardBase.conjugate: the operator itself, or NotImplementedError
Conjugate(id) ==
    /\ ops[id].live
    /\ ret' = IF IsInstance(ops[id].dtype, "float")
              THEN [call |-> "conj", id |-> id, raised |-> FALSE, error |-> "",
                    result |-> id, pre |-> ops]
              ELSE [call |-> "conj", id |-> id, raised |-> TRUE,
                    error |-> "NotImplementedError", result |-> "", pre |-> ops]
    /\ UNCHANGED ops

\* ---------------------------------------------------------------- index codec
\* DiscreteHilbert.n_states of a finite space: the product of the shape
RECURSIVE NStates(_)
NStates(shape) == IF shape = <<>> THEN 1 ELSE shape[1] * NStates(Tail(shape))

\* _numbers_to_states for one number: its mixed-radix digits over the shape,
\* the last site the least significant
RECURSIVE Decode(_, _)
Decode(shape, n) ==
    IF shape = <<>> THEN <<>>
    ELSE LET last == shape[Len(shape)]
         IN  Append(Decode(SubSeq(shape, 1, Len(shape) - 1), n \div last), n % last)

\* np.any(numbers >= self.n_states)
AnyTooLarge(numbers, n_states) == \E k \in 1..Len(numbers) : numbers[k] >= n_states

\* DiscreteHilbert.numbers_to_states on a space of the given shape; numbers is
\* the batch (a scalar is the batch np.atleast_1d makes of it), outGiven tells
\* whether the caller passed an output buffer
NumbersToStates(shape, numbers, isScalar, outGiven) ==
    LET unwritten == [k \in 1..Len(numbers) |-> [written |-> FALSE, row |-> <<>>]]
        decoded == [k \in 1..Len(numbers) |-> [written |-> TRUE, row |-> Decode(shape, numbers[k])]]
    IN  /\ ret' = IF AnyTooLarge(numbers, NStates(shape))
                  THEN [call |-> "n2s", shape |-> shape, numbers |-> numbers,
                        isScalar |-> isScalar, allocated |-> ~outGiven,
                        raised |-> TRUE, out |-> unwritten, result |-> <<>>]
                  ELSE [call |-> "n2s", shape |-> shape, numbers |-> numbers,
                        isScalar |-> isScalar, allocated |-> ~outGiven,
                        raised |-> FALSE, out |-> decoded,
                        result |-> IF isScalar THEN <<decoded[1].row>>
                                   ELSE [k \in 1..Len(numbers) |-> decoded[k].row]]
        /\ UNCHANGED ops

\* ---------------------------------------------------------------- SpecKernel
\* site pairs offered to the constructor on n sites: every pair i < j of sites
SitePairs(n) == {p \in (0..n - 1) \X (0..n - 1) : p[1] < p[2]}

\* a pair whose second index is one past the last site
PairPastEnd(n) == <<0, n>>

\* lists of at most m pairs of P in which no pair precedes a smaller one
RECURSIVE PairLists(_, _)
PairLists(P, m) ==
    IF m = 0 THEN {<<>>}
    ELSE LET shorter == PairLists(P, m - 1)
         IN  shorter \cup {Append(l, p) : l \in {q \in shorter : Len(q) = m - 1},
                                          p \in P}

Sorted(l) == \A k \in 1..Len(l) - 1 :
                 \/ l[k][1] < l[k + 1][1]
                 \/ l[k][1] = l[k + 1][1] /\ l[k][2] <= l[k + 1][2]

\* graph arguments
ListGraph(pairs) == [kind |-> "list", n_nodes |-> 0, ndim |-> 0, cols |-> 0, edges |-> pairs]
ArrayGraph(ndim, cols, pairs) ==
    [kind |-> "array", n_nodes |-> 0, ndim |-> ndim, cols |-> cols, edges |-> pairs]
ObjectGraph(n, pairs) == [kind |-> "graph", n_nodes |-> n, ndim |-> 0, cols |-> 0, edges |-> pairs]

\* the edges of a chain graph object on n nodes
ChainEdges(n) == [k \in 1..n - 1 |-> <<k - 1, k>>]

\* the graph arguments tried on a space of n sites: sorted lists of pairs of
\* sites, a list with a pair past the last site, the empty (0, 2) array, a
\* 3-column array, and chain graph objects
KernelGraphs(n) ==
    {ListGraph(l) : l \in {q \in PairLists(SitePairs(n), MaxEdges) : Sorted(q)}}
    \cup {ListGraph(<<PairPastEnd(n)>>)}
    \cup {ArrayGraph(2, 2, <<>>), ArrayGraph(2, 3, <<>>)}
    \cup {ObjectGraph(m, ChainEdges(m)) : m \in 1..MaxSites}

\* coupling values offered to the constructor
CoefValues == {0, MaxCoef}

InitKernel == /\ ops = [id \in OpIds |-> NoOp]
              /\ ret = [call |-> "none"]

ConstructKernel ==
    \E h \in FockSpaces \cup {OtherSpace} : \E g \in KernelGraphs(HilbertSize(h)) :
        \E U \in CoefValues, V \in CoefValues, J \in CoefValues \cup {-MaxCoef}, mu \in CoefValues :
            Construct("a", h, g, U, V, J, mu, NoDType)

\* get_conn_padded and to_local_operator leave the operator as it is, so a
\* query made after another query reaches nothing new: queries are taken
\* from the state the construction left
Constructed == ret.call = "init"

ConnKernel == /\ Constructed
              /\ \E x \in Configs(ops["a"].hilbert) : GetConnPadded("a", x)

LocalKernel == /\ Constructed
               /\ ToLocalOperator("a")

NextKernel == ConstructKernel \/ ConnKernel \/ LocalKernel

SpecKernel == InitKernel /\ [][NextKernel]_vars

\* ---------------------------------------------------------------- kernel claims
\* every edge of the operator names two sites of its Hilbert space
EdgesInRange(op) ==
    \A k \in 1..Len(op.edges) :
        /\ 0 <= op.edges[k][1] /\ op.edges[k][1] < op.n_sites
        /\ 0 <= op.edges[k][2] /\ op.edges[k][2] < op.n_sites

\* get_conn_padded returned for an operator whose edges name sites
ConnReturned == /\ ret.call = "conn"
                /\ ~ret.out.raised
                /\ EdgesInRange(ops[ret.id])

\* x with one quantum moved from site src to site dst
Moved(x, src, dst) ==
    [s \in 1..Len(x) |-> x[s] - (IF s - 1 = src THEN 1 ELSE 0) + (IF s - 1 = dst THEN 1 ELSE 0)]

\* The output is the diagonal slot followed by the block of the 'destroy i,
\* create j' slots and the block of the 'destroy j, create i' slots, the two
\* blocks of one length; edge k (counted from 1) has the k-th slot of each.
HopBlock(out) == (Len(out.mask) - 1) \div 2
SlotIJ(out, k) == 1 + k
SlotJI(out, k) == 1 + HopBlock(out) + k

\* C1: in the output of get_conn_padded, the 'destroy i, create j' slot of
\* edge k = (i, j), when its mask is true, holds X with one quantum moved from
\* i to j, and the 'destroy j, create i' slot of edge k, when its mask is true,
\* holds X with one quantum moved from j to i; every other site is unchanged.
C1_HopConfiguration ==
    ConnReturned =>
        \A k \in 1..Len(ops[ret.id].edges) :
            LET e == ops[ret.id].edges[k]
                ij == SlotIJ(ret.out, k)
                ji == SlotJI(ret.out, k)
            IN  /\ ret.out.mask[ij] => ret.out.xp[ij] = Moved(ret.x, e[1], e[2])
                /\ ret.out.mask[ji] => ret.out.xp[ji] = Moved(ret.x, e[2], e[1])

RECURSIVE SumOver(_, _)
\* the sum of f over the finite set D of its domain
SumOver(f, D) == IF D = {} THEN 0
                 ELSE LET d == CHOOSE d \in D : TRUE IN f[d] + SumOver(f, D \ {d})

\* -mu*sum_s x_s + (U/2)*sum_s x_s*(x_s - 1) + V*sum_edges n_i*n_j, doubled
DiagonalDoubled(op, x) ==
    LET sites == 1..Len(x)
        edgeIx == 1..Len(op.edges)
    IN  op.U * SumOver([s \in sites |-> x[s] * (x[s] - 1)], sites)
        + 2 * op.V * SumOver([k \in edgeIx |-> x[op.edges[k][1] + 1] * x[op.edges[k][2] + 1]], edgeIx)
        - 2 * op.mu * SumOver(x, sites)

C3_HopMask ==
    ConnReturned =>
        LET op == ops[ret.id]
            E == Len(op.edges)
            n(s) == ret.x[s + 1]
            n_max(s) == op.hilbert.n_max[s + 1]
        IN  \A k \in 1..E :
                LET i == op.edges[k][1]
                    j == op.edges[k][2]
                IN  /\ ret.out.mask[SlotIJ(ret.out, k)] <=> (n(i) > 0 /\ n(j) < n_max(j))
                    /\ ret.out.mask[SlotJI(ret.out, k)] <=> (n(j) > 0 /\ n(i) < n_max(i))

\* C4: every off-diagonal slot whose mask is false carries matrix element 0
\* and the configuration X itself.
C4_MaskedSlotIsInput ==
    ConnReturned =>
        \A t \in 2..Len(ret.out.mask) :
            ~ret.out.mask[t] => ret.out.mels[t] = ZeroMel /\ ret.out.xp[t] = ret.x

\* to_local_operator returned for an operator whose edges name sites
LocalReturned == ret.call = "tlo" /\ EdgesInRange(ops[ret.id])

\* the kernel's output for the operator op on the row x
KernelOf(op, x) == Kernel(x, op.edges, op.U, op.V, op.J, op.mu, op.n_max)

\* the accumulated operator has a hopping term on the pair e
HasHop(ha, e) == \E t \in 1..Len(ha) : ha[t].kind = "hop" /\ ha[t].i = e[1] /\ ha[t].j = e[2]

\* the kernel gives edge k a true mask and a nonzero element on some row
KernelHops(op, k) ==
    \E x \in Configs(op.hilbert) :
        LET out == KernelOf(op, x)
        IN  /\ ~out.raised
            /\ \E t \in {SlotIJ(out, k), SlotJI(out, k)} : out.mask[t] /\ out.mels[t] # ZeroMel

\* C5: the operator to_local_operator accumulates is the operator of the
\* kernel: on every configuration the diagonal terms it adds sum to mels[:,0]
\* of the kernel, and it has a hopping term on an edge exactly when the kernel
\* gives that edge a nonzero hopping element.
C5_LocalOperatorEquivalent ==
    LocalReturned =>
        LET op == ops[ret.id]
        IN  /\ \A x \in Configs(op.hilbert) :
                   ~KernelOf(op, x).raised =>
                       RatMel(HaDiag(ret.ha, x)) = KernelOf(op, x).mels[1]
            /\ \A k \in 1..Len(op.edges) : HasHop(ret.ha, op.edges[k]) <=> KernelHops(op, k)

C9_SelfAdjoint ==
    ConnReturned =>
        /\ IsHermitian(ops[ret.id])
        /\ \A t \in 2..Len(ret.out.mask) :
               ret.out.mask[t] =>
                   LET back == KernelOf(ops[ret.id], ret.out.xp[t])
                   IN  \E u \in 2..Len(back.mask) :
                           /\ back.mask[u]
                           /\ back.xp[u] = ret.x
                           /\ back.mels[u] = ret.out.mels[t]

\* ---------------------------------------------------------------- SpecAlgebra
\* the spaces the operators to be combined are built on: one of each size with
\* MaxOcc everywhere, and the one-site space of maximum occupation 1
AlgebraSpaces == {h \in FockSpaces : \A s \in 1..HilbertSize(h) : h.n_max[s] = MaxOcc}
                 \cup {[isFock |-> TRUE, n_max |-> <<1>>]}

\* the graph arguments they are built from: one pair of sites, one pair past
\* the last site, the empty array
AlgebraGraphs(n) ==
    {ListGraph(<<p>>) : p \in {q \in SitePairs(n) : q = <<0, 1>>}}
    \cup {ListGraph(<<PairPastEnd(n)>>), ArrayGraph(2, 2, <<>>)}

\* the couplings stay within MaxCoef
CoefsWithin(op) == \A c \in {op.U, op.V, op.J, op.mu} : -MaxCoef <= c /\ c <= MaxCoef

ConstructAlgebra ==
    \E id \in OpIds, h \in AlgebraSpaces : \E g \in AlgebraGraphs(HilbertSize(h)) :
        \E U \in CoefValues, V \in CoefValues, J \in CoefValues, mu \in CoefValues :
            Construct(id, h, g, U, V, J, mu, NoDType)

CopyAlgebra == \E src \in OpIds, dst \in OpIds : Copy(src, dst, NoDType)

IaddAlgebra == \E self \in OpIds, other \in OpIds : /\ IaddSameHamiltonian(self, other)
                                                    /\ CoefsWithin(ops'[self])

IsubAlgebra == \E self \in OpIds, other \in OpIds : /\ IsubSameHamiltonian(self, other)
                                                    /\ CoefsWithin(ops'[self])

NextAlgebra == ConstructAlgebra \/ CopyAlgebra \/ IaddAlgebra \/ IsubAlgebra

SpecAlgebra == InitKernel /\ [][NextAlgebra]_vars

\* C6: an in-place add of another operator on an equal Hilbert space makes the
\* receiver's U, V, J, mu the sums of the two operands' values and leaves the
\* other operand, the receiver's edges and its max_conn_size as they were; on
\* different Hilbert spaces the call raises and changes no coefficient.
C6_InPlaceAdd ==
    ret.call = "iadd" =>
        LET self == ret.pre[ret.self]
            other == ret.pre[ret.other]
        IN  IF self.hilbert = other.hilbert
            THEN /\ ~ret.raised
                 /\ ops[ret.self].U = self.U + other.U
                 /\ ops[ret.self].V = self.V + other.V
                 /\ ops[ret.self].J = self.J + other.J
                 /\ ops[ret.self].mu = self.mu + other.mu
                 /\ ops[ret.self].edges = self.edges
                 /\ ops[ret.self].max_conn = self.max_conn
                 /\ ret.other # ret.self => ops[ret.other] = other
            ELSE /\ ret.raised
                 /\ \A id \in OpIds :
                        /\ ops[id].U = ret.pre[id].U /\ ops[id].V = ret.pre[id].V
                        /\ ops[id].J = ret.pre[id].J /\ ops[id].mu = ret.pre[id].mu

\* an add of another operator with four different nonzero effects succeeded
C6_WitnessAdded ==
    /\ ret.call = "iadd" /\ ~ret.raised /\ ret.other # ret.self
    /\ ret.pre[ret.other].U # 0 /\ ret.pre[ret.other].J # 0
    /\ ret.pre[ret.other].V = 0 /\ ret.pre[ret.other].mu = 0
    /\ ops[ret.self].U # ops[ret.self].V
    /\ ret.pre[ret.self].edges # ret.pre[ret.other].edges

\* C10: every constructed operator has all its edges (i, j) within
\* 0 <= i, j < n_sites, also after copies and in-place adds and subtracts.
C10_EdgesNameSites == \A id \in OpIds : ops[id].live => EdgesInRange(ops[id])

\* ---------------------------------------------------------------- SpecIndex
\* shapes of the indexed spaces: the Fock shapes n_max + 1
IndexShapes == {[s \in 1..HilbertSize(h) |-> h.n_max[s] + 1] : h \in FockSpaces}

\* the numbers tried on a space of n states: both ends of the range and one
\* number off each end
IndexNumbers(n) == {-1, 0, n - 1, n}

\* numbers_to_states changes nothing of the space, so the calls are taken
\* from the initial state
IndexCall ==
    /\ ret.call = "none"
    /\ \E shape \in IndexShapes, outGiven \in BOOLEAN :
           \/ \E n \in IndexNumbers(NStates(shape)) :
                  NumbersToStates(shape, <<n>>, TRUE, outGiven)
           \/ \E m \in 1..MaxBatch : \E numbers \in [1..m -> IndexNumbers(NStates(shape))] :
                  NumbersToStates(shape, numbers, FALSE, outGiven)

NextIndex == IndexCall

SpecIndex == InitKernel /\ [][NextIndex]_vars

\* C7: numbers_to_states raises for every input holding a number outside
\* [0, n_states), a negative number as well as one >= n_states, and raises
\* before any row is decoded or written to the output buffer.
C7_RangeError ==
    (/\ ret.call = "n2s"
     /\ \E k \in 1..Len(ret.numbers) :
            ret.numbers[k] < 0 \/ ret.numbers[k] >= NStates(ret.shape))
    => /\ ret.raised
       /\ \A k \in 1..Len(ret.out) : ~ret.out[k].written

\* ---------------------------------------------------------------- SpecConjugate
\* dtype arguments offered to the constructor and to copy
DTypeArgs == {NoDType} \cup RealDTypes \cup ComplexDTypes

ConstructConjugate ==
    \E h \in AlgebraSpaces : \E g \in AlgebraGraphs(HilbertSize(h)) :
        \E U \in CoefValues, J \in CoefValues, dtype \in DTypeArgs :
            Construct("a", h, g, U, 0, J, 0, dtype)

CopyConjugate == \E dtype \in DTypeArgs : Copy("a", "b", dtype)

ConjugateCall == \E id \in OpIds : Conjugate(id)

NextConjugate == ConstructConjugate \/ CopyConjugate \/ ConjugateCall

SpecConjugate == InitKernel /\ [][NextConjugate]_vars

\* C11: conjugate() returns the operator itself when its dtype is real, raises
\* the not-implemented error only when its dtype is complex, and in both
\* cases leaves the coefficients of every operator as they were.
C11_ConjugateOfReal ==
    ret.call = "conj" =>
        /\ ops[ret.id].dtype.name \in RealDTypes => ~ret.raised /\ ret.result = ret.id
        /\ ret.raised => /\ ret.error = "NotImplementedError"
                         /\ ops[ret.id].dtype.name \in ComplexDTypes
        /\ ops = ret.pre

====
